---- MODULE Spec2Model ----
(***************************************************************************)
(* Model of emg_support_functions.py: detection of the TMS pulse artifact  *)
(* and of the motor evoked potential (MEP) in a single-trial EMG signal,   *)
(* measurement of the MEP peak-to-peak size, and aggregation of the MEP    *)
(* sizes of a 42-trial dataset into a recruitment curve.                   *)
(*                                                                         *)
(* Representation.                                                         *)
(*  - A signal is a sequence of integers, a sample being a multiple of     *)
(*    0.01 mV (100 stands for 1.0 mV).  Python index i is TLA+ index i+1;  *)
(*    every index that appears in a state or a result is a Python index.   *)
(*  - A floating point number is a pair <<n, d>>: the exact rational n/d   *)
(*    when d > 0, and NaN when d = 0.  Rounding is not modelled.           *)
(*  - None is the empty sequence, and so is the empty list [].             *)
(*  - The outcome of a call is a record [kind, val]: kind is "return" or   *)
(*    the name of the exception raised, val the returned value.            *)
(***************************************************************************)
EXTENDS Integers, Sequences, FiniteSets

VARIABLES emg_signal, offset, df, mep_sizes, op, pc, ret

vars == <<emg_signal, offset, df, mep_sizes, op, pc, ret>>

----------------------------------------------------------------------------
(* Bounds of the explored inputs                                           *)

MaxSpikes == 3

Positions == {9, 10, 30, 60, 109, 110}

Heights == {-5, 3, 50, 100}

SignalLengths == {80, 120}

Offsets == {-7}

----------------------------------------------------------------------------
(* Program constants                                                       *)

PROMINENCE == 5

HALF_WINDOW == 50

----------------------------------------------------------------------------
(* Values                                                                  *)

None == <<>>

Float(v) == <<v, 1>>

nan == <<0, 0>>

IsNan(f) == f[2] = 0

Return(v) == [kind |-> "return", val |-> v]

Raise(e) == [kind |-> e, val |-> <<>>]

At(x, i) == x[i + 1]

AsSeq(f) == SubSeq(f, 1, Len(f))

AddConst(x, c) == AsSeq([k \in 1..Len(x) |-> x[k] + c])

Neg(x) == AsSeq([k \in 1..Len(x) |-> 0 - x[k]])

----------------------------------------------------------------------------
(* scipy.signal.find_peaks(x, prominence=0.05).                            *)
(* A local maximum is the midpoint (rounded down) of a run of equal        *)
(* samples whose two neighbours are strictly lower; the first and the last *)
(* sample are never local maxima.  The prominence of a peak is its height  *)
(* above the higher of its two bases, a base being the lowest sample       *)
(* between the peak and the nearest higher sample on that side (or the     *)
(* end of the signal).                                                     *)

PlateauEnd(x, i) ==
    CHOOSE r \in i..(Len(x) - 1) :
        /\ \A k \in i..r : At(x, k) = At(x, i)
        /\ (r = Len(x) - 1 \/ At(x, r + 1) # At(x, i))

LocalMaxima(x) ==
    { (i + PlateauEnd(x, i)) \div 2 :
        i \in { j \in 1..(Len(x) - 2) :
                  /\ At(x, j - 1) < At(x, j)
                  /\ PlateauEnd(x, j) < Len(x) - 1
                  /\ At(x, PlateauEnd(x, j) + 1) < At(x, j) } }

MinOver(x, I) == CHOOSE v \in {At(x, i) : i \in I} :
                     \A i \in I : At(x, i) >= v

MaxOver(x, I) == CHOOSE v \in {At(x, i) : i \in I} :
                     \A i \in I : At(x, i) <= v

LeftBase(x, peak) ==
    LET higher == {j \in 0..(peak - 1) : At(x, j) > At(x, peak)}
        i_min == IF higher = {} THEN 0
                 ELSE 1 + (CHOOSE j \in higher : \A k \in higher : k <= j)
    IN  MinOver(x, i_min..peak)

RightBase(x, peak) ==
    LET higher == {j \in (peak + 1)..(Len(x) - 1) : At(x, j) > At(x, peak)}
        i_max == IF higher = {} THEN Len(x) - 1
                 ELSE (CHOOSE j \in higher : \A k \in higher : j <= k) - 1
    IN  MinOver(x, peak..i_max)

PeakProminence(x, peak) ==
    LET l == LeftBase(x, peak)
        r == RightBase(x, peak)
    IN  At(x, peak) - (IF l > r THEN l ELSE r)

RECURSIVE Ascending(_)
Ascending(S) ==
    IF S = {} THEN <<>>
    ELSE LET m == CHOOSE p \in S : \A q \in S : q <= p
         IN  Append(Ascending(S \ {m}), m)

find_peaks(x) ==
    Ascending({p \in LocalMaxima(x) : PeakProminence(x, p) >= PROMINENCE})

----------------------------------------------------------------------------
(* Python slicing x[a:b]: a negative bound counts from the end, and a      *)
(* bound outside the sequence is clamped to it.                            *)

SliceBound(n, a) ==
    IF a < 0 THEN (IF a + n < 0 THEN 0 ELSE a + n)
    ELSE (IF a > n THEN n ELSE a)

SliceIndices(x, a, b) == SliceBound(Len(x), a) .. (SliceBound(Len(x), b) - 1)

----------------------------------------------------------------------------
(* The functions of the module                                             *)

find_tms_pulse_trough_first(x) ==
    LET troughs == find_peaks(Neg(x))
        peaks2 == IF Len(troughs) = 0 THEN find_peaks(x) ELSE troughs
    IN  IF Len(peaks2) = 0 THEN Raise("IndexError")
        ELSE Return(<<peaks2[1]>>)

find_tms_pulse(x) ==
    LET peaks == find_peaks(x)
        peaks2 == IF Len(peaks) = 0 THEN find_peaks(Neg(x)) ELSE peaks
    IN  IF Len(peaks2) = 0 THEN Raise("IndexError")
        ELSE Return(<<peaks2[1]>>)

is_mep_three_peaks(x) == Len(find_peaks(x)) > 2

is_mep(x) == Len(find_peaks(x)) > 1

find_mep_timing(x) ==
    IF ~ is_mep(x) THEN Return(<<>>)
    ELSE Return(<<find_peaks(x)[2]>>)

(* get_mep_size: find_mep_timing returns [] when there is no MEP, and      *)
(* [] - 50 raises TypeError.  The signal is a pandas Series (a column of   *)
(* the data frame), for which np.max and np.min of an empty slice are NaN; *)
(* on a numpy array the same reduction raises ValueError.                  *)

get_mep_size_closed_window(x) ==
    LET peak_emg == find_mep_timing(x).val
    IN  IF peak_emg = <<>> THEN Raise("TypeError")
        ELSE LET window == <<peak_emg[1] - HALF_WINDOW, peak_emg[1] + HALF_WINDOW + 1>>
                 I == SliceIndices(x, window[1], window[2])
             IN  IF I = {} THEN Return(nan)
                 ELSE Return(Float(MaxOver(x, I) - MinOver(x, I)))

get_mep_size(x) ==
    LET peak_emg == find_mep_timing(x).val
    IN  IF peak_emg = <<>> THEN Raise("TypeError")
        ELSE LET window == <<peak_emg[1] - HALF_WINDOW, peak_emg[1] + HALF_WINDOW>>
                 I == SliceIndices(x, window[1], window[2])
             IN  IF I = {} THEN Return(nan)
                 ELSE Return(Float(MaxOver(x, I) - MinOver(x, I)))

(* plot_recruitment_curve.  The accumulator [sum_meps, counter] of the     *)
(* loop over the intensities 110..150 is set to zero once, before the      *)
(* loop, and carried from one intensity to the next.  An index beyond the  *)
(* end of mep_sizes raises IndexError, a zero counter ZeroDivisionError.   *)

FAdd(s, v) == IF IsNan(s) \/ IsNan(v) THEN nan ELSE Float(s[1] + v[1])

MepSizes(d) ==
    AsSeq([col \in 1..Len(d) |->
             IF is_mep(d[col]) THEN get_mep_size(d[col]).val ELSE None])

RECURSIVE SumGroup(_, _, _, _)
SumGroup(ms, location, i, acc) ==
    IF i = 0 THEN acc
    ELSE LET prev == SumGroup(ms, location, i - 1, acc)
             m == ms[location + (i - 1) + 1]
         IN  IF m # None
             THEN [sum_meps |-> FAdd(prev.sum_meps, m),
                   counter |-> prev.counter + 1]
             ELSE prev

Mean(acc) ==
    IF IsNan(acc.sum_meps) THEN nan ELSE <<acc.sum_meps[1], acc.counter>>

ZeroAcc == [sum_meps |-> Float(0), counter |-> 0]

GroupLocation(tms_intensity) == 6 + tms_intensity * 6

RECURSIVE IntensityLoop(_, _, _, _)
IntensityLoop(ms, tms_intensity, acc, recruitment_curve) ==
    IF tms_intensity > 5 THEN Return(recruitment_curve)
    ELSE IF Len(ms) < GroupLocation(tms_intensity) + 6 THEN Raise("IndexError")
    ELSE LET acc2 == SumGroup(ms, GroupLocation(tms_intensity), 6, acc)
         IN  IF acc2.counter = 0 THEN Raise("ZeroDivisionError")
             ELSE IntensityLoop(ms, tms_intensity + 1, acc2,
                                Append(recruitment_curve, Mean(acc2)))

RecruitmentCurve(ms) ==
    IF Len(ms) < 12 THEN Raise("IndexError")
    ELSE LET acc == SumGroup(ms, 0, 12, ZeroAcc)
         IN  IF acc.counter = 0 THEN Raise("ZeroDivisionError")
             ELSE IntensityLoop(ms, 1, ZeroAcc, <<Mean(acc)>>)

(* sns.lineplot is handed stimulation_intensities (42 entries) and         *)
(* mep_sizes (one entry per column); when the lengths differ the plotting  *)
(* library may reject the data with ValueError.                            *)

stimulation_intensities ==
    [i \in 1..42 |-> IF i <= 12 THEN 100 ELSE 110 + 10 * ((i - 13) \div 6)]

LineplotOutcomes(d) ==
    IF Len(d) = Len(stimulation_intensities) THEN {"return"}
    ELSE {"return", "ValueError"}

plot_recruitment_curve(d, lineplot) ==
    LET curve == RecruitmentCurve(MepSizes(d))
    IN  IF curve.kind # "return" THEN curve
        ELSE IF lineplot # "return" THEN Raise(lineplot)
        ELSE curve

----------------------------------------------------------------------------
(* Inputs                                                                  *)

SpikeSignal(n, h) ==
    AsSeq([k \in 1..n |-> IF (k - 1) \in DOMAIN h THEN h[k - 1] ELSE 0])

ScenarioSignal == SpikeSignal(200, [p \in {50, 150} |-> IF p = 50 THEN 100 ELSE 50])

Signals ==
    {ScenarioSignal} \cup
    UNION { UNION { { SpikeSignal(n, h) : h \in [S -> Heights] } :
                    S \in { T \in SUBSET { p \in Positions : p < n - 1 } :
                               Cardinality(T) <= MaxSpikes } } :
            n \in SignalLengths }

MaxExtraTrials == 1

TrialKinds ==
    << <<0, 0, 0, 0, 0, 0>>,
       <<0, 100, 0, 0, 0, 0>>,
       <<0, 100, 0, 100, 0, 0>>,
       <<0, 100, 0, 200, -50, 0>> >>

OddColumns == {0, 13}

GroupOf(i) == IF i < 12 THEN 0 ELSE 1 + ((i - 12) \div 6)

Dataset(n, kinds, odd) ==
    AsSeq([col \in 1..n |->
             IF (col - 1) \in odd THEN TrialKinds[1]
             ELSE TrialKinds[kinds[GroupOf(col - 1) % 6]]])

Datasets ==
    { Dataset(n, kinds, odd) :
        n \in (42 - MaxExtraTrials)..(42 + MaxExtraTrials),
        kinds \in [0..5 -> 2..Len(TrialKinds)],
        odd \in {{}} \cup {{c} : c \in OddColumns} }

----------------------------------------------------------------------------
(* State machine: a caller picks a signal, may add a constant to it, and   *)
(* calls one of the functions on it.                                       *)

Init ==
    /\ emg_signal \in Signals
    /\ offset = 0
    /\ df = <<>>
    /\ mep_sizes = <<>>
    /\ op = "none"
    /\ pc = "idle"
    /\ ret = Return(<<>>)

AddConstant ==
    /\ pc = "idle"
    /\ offset = 0
    /\ \E c \in Offsets :
          /\ emg_signal' = AddConst(emg_signal, c)
          /\ offset' = c
    /\ UNCHANGED <<df, mep_sizes, op, pc, ret>>

FindTmsPulse ==
    /\ pc = "idle"
    /\ op' = "find_tms_pulse"
    /\ ret' = find_tms_pulse(emg_signal)
    /\ pc' = "done"
    /\ UNCHANGED <<emg_signal, offset, df, mep_sizes>>

IsMep ==
    /\ pc = "idle"
    /\ op' = "is_mep"
    /\ ret' = Return(<<is_mep(emg_signal)>>)
    /\ pc' = "done"
    /\ UNCHANGED <<emg_signal, offset, df, mep_sizes>>

FindMepTiming ==
    /\ pc = "idle"
    /\ op' = "find_mep_timing"
    /\ ret' = find_mep_timing(emg_signal)
    /\ pc' = "done"
    /\ UNCHANGED <<emg_signal, offset, df, mep_sizes>>

GetMepSize ==
    /\ pc = "idle"
    /\ op' = "get_mep_size"
    /\ ret' = get_mep_size(emg_signal)
    /\ pc' = "done"
    /\ UNCHANGED <<emg_signal, offset, df, mep_sizes>>

Next ==
    \/ AddConstant
    \/ FindTmsPulse
    \/ IsMep
    \/ FindMepTiming
    \/ GetMepSize

Spec == Init /\ [][Next]_vars

----------------------------------------------------------------------------
(* State machine: a caller picks a dataset and calls                       *)
(* plot_recruitment_curve on it.                                           *)

InitCurve ==
    /\ df \in Datasets
    /\ emg_signal = <<>>
    /\ offset = 0
    /\ mep_sizes = <<>>
    /\ op = "none"
    /\ pc = "idle"
    /\ ret = Return(<<>>)

PlotRecruitmentCurve ==
    /\ pc = "idle"
    /\ mep_sizes' = MepSizes(df)
    /\ \E lineplot \in LineplotOutcomes(df) :
          ret' = plot_recruitment_curve(df, lineplot)
    /\ op' = "plot_recruitment_curve"
    /\ pc' = "done"
    /\ UNCHANGED <<emg_signal, offset, df>>

NextCurve == PlotRecruitmentCurve

SpecCurve == InitCurve /\ [][NextCurve]_vars

----------------------------------------------------------------------------
(* Vocabulary of the properties                                            *)

Done(name) == pc = "done" /\ op = name

Peaks == find_peaks(emg_signal)

Troughs == find_peaks(Neg(emg_signal))

SecondPeak == Peaks[2]

FloatEq(a, b) == ~ IsNan(a) /\ ~ IsNan(b) /\ a[1] * b[2] = b[1] * a[2]

PeakToPeak(x, I) == Float(MaxOver(x, I) - MinOver(x, I))

Min2(a, b) == IF a < b THEN a ELSE b

Max2(a, b) == IF a > b THEN a ELSE b

OriginalSignal == AddConst(emg_signal, 0 - offset)

GroupTrials(g) ==
    IF g = 0 THEN 0..11 ELSE (12 + 6 * (g - 1))..(17 + 6 * (g - 1))

PresentTrials(g) == {i \in GroupTrials(g) : mep_sizes[i + 1] # None}

RECURSIVE SumSizes(_)
SumSizes(S) ==
    IF S = {} THEN 0
    ELSE LET i == CHOOSE j \in S : TRUE
         IN  mep_sizes[i + 1][1] + SumSizes(S \ {i})

OwnGroupMean(g) == <<SumSizes(PresentTrials(g)), Cardinality(PresentTrials(g))>>

----------------------------------------------------------------------------
(* C1: for a 42-trial dataset, the recruitment-curve value of every group  *)
(* g in 0..5 is the arithmetic mean of the present MEP sizes of the        *)
(* trials of group g only ([0,12) for group 0, [12+6k,18+6k) for group     *)
(* k+1).                                                                   *)
C1_GroupMeanOfOwnTrials ==
    (Done("plot_recruitment_curve") /\ Len(df) = 42 /\ ret.kind = "return")
    => \A g \in 0..5 :
          PresentTrials(g) # {} => FloatEq(ret.val[g + 1], OwnGroupMean(g))

(* C2: when the second peak t has t-50 >= 0 and t+50 <= length,            *)
(* get_mep_size returns max - min of the samples with index in the         *)
(* half-open window t-50 <= i < t+50 around the second peak.               *)
C2_WindowAroundSecondPeak ==
    (Done("get_mep_size") /\ Len(Peaks) >= 2
        /\ SecondPeak - 50 >= 0 /\ SecondPeak + 50 <= Len(emg_signal))
    => ret = Return(PeakToPeak(emg_signal, (SecondPeak - 50)..(SecondPeak + 49)))

C2_Witness ==
    /\ Done("get_mep_size")
    /\ Len(Peaks) >= 2
    /\ SecondPeak = 60
    /\ Peaks[1] = 9
    /\ At(emg_signal, 10) < At(emg_signal, 11)
    /\ At(emg_signal, 9) > At(emg_signal, 60)
    /\ ret = Return(Float(At(emg_signal, 60) - At(emg_signal, 10)))

(* C3: is_mep returns true exactly when find_peaks with prominence 0.05    *)
(* yields more than one peak; find_mep_timing then returns the index of    *)
(* the second peak, and otherwise returns the empty list without raising.  *)
C3_MepIffSecondPeak ==
    /\ Done("is_mep") => ret = Return(<<Len(Peaks) > 1>>)
    /\ Done("find_mep_timing")
         => ret = Return(IF Len(Peaks) > 1 THEN <<SecondPeak>> ELSE <<>>)

C3_Witness ==
    /\ Done("find_mep_timing")
    /\ Len(Peaks) = 2
    /\ Peaks[1] < SecondPeak
    /\ ret = Return(<<SecondPeak>>)

(* C4: find_tms_pulse returns the index of the first peak of the signal    *)
(* when it has one, and the index of the first peak of the negated signal  *)
(* only when it has none.                                                  *)
C4_PulseIsFirstPeak ==
    Done("find_tms_pulse")
    => /\ Len(Peaks) > 0 => ret = Return(<<Peaks[1]>>)
       /\ (Len(Peaks) = 0 /\ Len(Troughs) > 0) => ret = Return(<<Troughs[1]>>)

C4_Witness ==
    /\ Done("find_tms_pulse")
    /\ Len(Peaks) > 0
    /\ Len(Troughs) > 0
    /\ Troughs[1] < Peaks[1]
    /\ ret = Return(<<Peaks[1]>>)

(* C5: for a 42-trial dataset with a group that has no present MEP size,   *)
(* plot_recruitment_curve returns, with an undefined value (NaN) for that  *)
(* group and the mean of its own present sizes for every other group.      *)
C5_EmptyGroupIsUndefined ==
    (Done("plot_recruitment_curve") /\ Len(df) = 42
        /\ \E g \in 0..5 : PresentTrials(g) = {})
    => /\ ret.kind = "return"
       /\ \A g \in 0..5 :
             IF PresentTrials(g) = {} THEN IsNan(ret.val[g + 1])
             ELSE FloatEq(ret.val[g + 1], OwnGroupMean(g))

(* C6: when the second peak t is within 50 samples of the start or the end *)
(* of the signal, get_mep_size returns max - min of the samples with index *)
(* in the clipped window max(0,t-50) <= i < min(length,t+50).              *)
C6_WindowClipped ==
    (Done("get_mep_size") /\ Len(Peaks) >= 2
        /\ (SecondPeak < 50 \/ SecondPeak + 50 > Len(emg_signal)))
    => ret = Return(PeakToPeak(emg_signal,
                      Max2(0, SecondPeak - 50)
                        .. (Min2(Len(emg_signal), SecondPeak + 50) - 1)))

(* C7: on a signal with no peak in either polarity find_tms_pulse reports  *)
(* the NoPulseDetected condition instead of failing on the first element   *)
(* of an empty peak sequence, and is_mep returns false.                    *)
C7_NoPulseDetected ==
    (Len(Peaks) = 0 /\ Len(Troughs) = 0)
    => /\ Done("find_tms_pulse") => ret.kind \notin {"return", "IndexError"}
       /\ Done("is_mep") => ret = Return(<<FALSE>>)

(* C8: on a dataset whose number of trial columns is not 42,               *)
(* plot_recruitment_curve reports an error: it neither returns a           *)
(* recruitment curve nor fails with an out-of-range access.                *)
C8_MalformedTrialCount ==
    (Done("plot_recruitment_curve") /\ Len(df) # 42)
    => ret.kind \notin {"return", "IndexError"}

(* C9: the per-trial list has one entry per column in column order, entry  *)
(* i being None exactly when is_mep of column i is false and otherwise     *)
(* get_mep_size of column i, and the list is part of the returned value.   *)
C9_PerTrialListReturned ==
    Done("plot_recruitment_curve")
    => /\ Len(mep_sizes) = Len(df)
       /\ \A col \in 1..Len(df) :
             IF is_mep(df[col])
             THEN mep_sizes[col] = get_mep_size(df[col]).val
             ELSE mep_sizes[col] = None
       /\ ret.kind = "return"
             => \E k \in 1..Len(ret.val) : ret.val[k] = mep_sizes

(* C10: for a signal with at least two peaks and a constant c, is_mep,     *)
(* find_mep_timing and get_mep_size of signal + c equal those of signal.   *)
C10_OffsetInvariant ==
    (pc = "done" /\ offset # 0 /\ is_mep(OriginalSignal))
    => /\ op = "is_mep" => ret = Return(<<TRUE>>)
       /\ op = "find_mep_timing" => ret = find_mep_timing(OriginalSignal)
       /\ op = "get_mep_size"
            => /\ ret.kind = "return"
               /\ FloatEq(ret.val, get_mep_size(OriginalSignal).val)

====
